---- MODULE Spec2Model ----
(***************************************************************************)
(* A model of PyCopier (src/pycopier/pycopier.py): the coordinator thread  *)
(* of execute() / _submitOperations(), the ThreadPool's task queue and the *)
(* jobs _copyFile and _cleanDestinationDirectory, at the granularity of    *)
(* one file-system call per step, over an explicit file system.            *)
(***************************************************************************)
EXTENDS Integers, Sequences, FiniteSets, TLC

\* ------------------------------------------------------------------ bounds
MaxWorkers == 2
MaxBuf == 2
MaxFileLen == 2
MaxFaults == 1

VARIABLES
    cfg,        \* the constructor's arguments (self.source .. self.ignoreErrorOnCopy)
    fs,         \* the file system: existing path |-> node
    clock,      \* the file system's clock (stamps of created and written files)
    faults,     \* I/O failures the environment may still inject
    pc,         \* where the coordinator thread is
    calls,      \* execute() calls made so far
    callLimit,  \* execute() calls the caller makes
    done,       \* self._done
    walk,       \* directories the walk has still to yield
    cur,        \* the (root, dirs, files) triple the walk has yielded
    jobs,       \* every task given to the pool: arguments, handle state, locals
    queue,      \* the pool's task queue (indices into jobs), FIFO
    results,    \* the handles _submitOperations returned to execute()
    idx,        \* the handle execute() is waiting for
    copiedDataBytes,
    numberOfPurgedFiles,
    numberOfSkippedCopies,
    before,     \* the file system as it was when execute() was called
    history,    \* how the earlier calls ended, and what the caller changed since
    stdout      \* the kinds of line written to sys.stdout so far

vars == <<cfg, fs, clock, faults, pc, calls, callLimit, done, walk, cur, jobs,
          queue, results, idx, copiedDataBytes, numberOfPurgedFiles,
          numberOfSkippedCopies, before, history, stdout>>

counters == <<copiedDataBytes, numberOfPurgedFiles, numberOfSkippedCopies>>

\* ------------------------------------------------------------- file system
Min(a, b) == IF a < b THEN a ELSE b

Parent(p) == SubSeq(p, 1, Len(p) - 1)
BaseName(p) == p[Len(p)]
IsPrefix(p, q) == Len(p) <= Len(q) /\ SubSeq(q, 1, Len(p)) = p

\* The root of the file system always exists and is never stored in fs.
Exists(f, p) == p = <<>> \/ p \in DOMAIN f
IsDir(f, p) == p = <<>> \/ (p \in DOMAIN f /\ f[p].kind = "dir")
IsFile(f, p) == p \in DOMAIN f /\ f[p].kind = "file"

\* os.listdir: the names of the immediate entries of p.
ListDir(f, p) == {BaseName(q) : q \in {r \in DOMAIN f : Len(r) = Len(p) + 1 /\ Parent(r) = p}}
SubDirs(f, p) == {n \in ListDir(f, p) : IsDir(f, p \o <<n>>)}
Files(f, p) == {n \in ListDir(f, p) : IsFile(f, p \o <<n>>)}

\* Metadata of a node the program creates: the process's default mode and
\* the current time.
DefaultMode == "default"
NewFile(t) == [kind |-> "file", data |-> <<>>, mode |-> DefaultMode, mtime |-> t, atime |-> t]
NewDir(t) == [kind |-> "dir", data |-> <<>>, mode |-> DefaultMode, mtime |-> t, atime |-> t]

Put(f, p, node) == (p :> node) @@ f
Remove(f, p) == [q \in DOMAIN f \ {p} |-> f[q]]
\* shutil.rmtree: p and everything below it.
RmTree(f, p) == [q \in {r \in DOMAIN f : ~IsPrefix(p, r)} |-> f[q]]

\* os.mkdir succeeds when the path is free and its parent is a directory.
CanMkdir(f, p) == ~Exists(f, p) /\ IsDir(f, Parent(p))
\* open(p, 'wb') succeeds when p is not a directory and its parent is one.
CanOpenWrite(f, p) == p # <<>> /\ ~IsDir(f, p) /\ IsDir(f, Parent(p))
\* A variant of OpenWrite that opens for appending: an existing file keeps
\* its bytes.
OpenAppend(f, p, t) ==
    IF IsFile(f, p) THEN [f EXCEPT ![p].mtime = t]
    ELSE Put(f, p, NewFile(t))
\* open(p, 'wb'): creates the file, or truncates it (which stamps mtime).
OpenWrite(f, p, t) ==
    IF IsFile(f, p) THEN [f EXCEPT ![p].data = <<>>, ![p].mtime = t]
    ELSE Put(f, p, NewFile(t))
\* shutil.copymode in the place of shutil.copystat: the mode alone.
CopyModeOnly(f, s, d) == [f EXCEPT ![d].mode = f[s].mode]

\* shutil.copystat: mode, mtime and atime of s onto d.
CopyStat(f, s, d) ==
    [f EXCEPT ![d].mode = f[s].mode, ![d].mtime = f[s].mtime, ![d].atime = f[s].atime]


\* statMatch comparing the sizes only.
statMatchSizeOnly(srcStat, destStat) == Len(srcStat.data) = Len(destStat.data)

\* PyCopier.statMatch (the Python 3 branch): size, mtime and atime agree.
statMatch(srcStat, destStat) ==
    IF Len(srcStat.data) # Len(destStat.data) THEN FALSE
    ELSE IF srcStat.mtime # destStat.mtime \/ srcStat.atime # destStat.atime THEN FALSE
    ELSE TRUE

\* os.stat(p) raises NotADirectoryError, which is no FileNotFoundError, when
\* a proper prefix of p is a regular file.
StatNotADirectory(f, p) == \E k \in 1..(Len(p) - 1) : IsFile(f, SubSeq(p, 1, k))

\* ------------------------------------------------------------------- pool
\* The arguments of one pool.apply_async call, the state of its handle (st)
\* and the locals of the function while a worker runs it: pos is the number
\* of bytes read from the source, handle the bytes of the open source file,
\* len is copiedDataLength, added is what the job has passed to
\* addCopiedDataBytes so far, how is the way it returned.
CopyJob(s, d, c) ==
    [kind |-> "copy", src |-> s, dst |-> d, keep |-> {}, call |-> c, st |-> "queued",
     pc |-> "new", handle |-> <<>>, pos |-> 0, len |-> 0, added |-> 0, stack |-> <<>>,
     how |-> "none"]
\* PurgeJob with the source-side listing dropped: nothing is retained.
PurgeJobKeepingNothing(dir, srcListing, c) ==
    [kind |-> "purge", src |-> <<>>, dst |-> dir, keep |-> {}, call |-> c, st |-> "queued",
     pc |-> "new", handle |-> <<>>, pos |-> 0, len |-> 0, added |-> 0, stack |-> <<>>,
     how |-> "none"]
PurgeJob(dir, srcListing, c) ==
    [kind |-> "purge", src |-> <<>>, dst |-> dir, keep |-> srcListing, call |-> c, st |-> "queued",
     pc |-> "new", handle |-> <<>>, pos |-> 0, len |-> 0, added |-> 0, stack |-> <<>>,
     how |-> "none"]

Running == {j \in 1..Len(jobs) : jobs[j].st = "running"}
Resolved(j) == jobs[j].st \in {"ok", "failed"}

\* pool.apply_async for each job of js, in order: the handles go to results.
Submitted(js) ==
    /\ jobs' = jobs \o js
    /\ queue' = queue \o [i \in 1..Len(js) |-> Len(jobs) + i]
    /\ results' = results \o [i \in 1..Len(js) |-> Len(jobs) + i]

\* Every order in which a directory listing may come back.
Orders(S) == {s \in [1..Cardinality(S) -> S] : \A i, k \in 1..Cardinality(S) : s[i] = s[k] => i = k}

\* ------------------------------------------------------------ coordinator
\* os.path.abspath(os.path.join(self.destination, os.path.relpath(root, self.source)))
destDir(root) == cfg.destination \o SubSeq(root, Len(cfg.source) + 1, Len(root))

\* try: os.mkdir(d) except OSError: pass
MkdirIgnoringErrors(f, d, t) == IF CanMkdir(f, d) THEN Put(f, d, NewDir(t)) ELSE f

\* checkAndPrintSpeedIfNeeded with the speed line written whatever quiet is.
checkAndPrintSpeedUnguarded(out) == out \cup {"speed"}

\* checkAndPrintSpeedIfNeeded, as far as the output goes: once the report
\* time has passed (it has at the first check of a call, _nextReportTime
\* being 0 then) the speed line is written unless quiet is set.
checkAndPrintSpeedIfNeeded(out) == IF cfg.quiet THEN out ELSE out \cup {"speed"}

\* The end of _submitOperations and the line execute() writes after it.
submissionComplete(out) == IF cfg.quiet THEN out ELSE out \cup {"submitted", "newline"}

\* The line after the drain loop and the summary at the end of execute().
summary(out) ==
    IF cfg.quiet THEN out
    ELSE out \cup {"newline", "runtime", "copied", "average"}
             \cup (IF cfg.purgeDestination THEN {"purged"} ELSE {})
             \cup (IF cfg.skipSameLookingFiles THEN {"skipped"} ELSE {})

\* execute with the single-file branch taken for whatever is not a directory.
executeWithoutCheck ==
    /\ pc \in {"idle", "returned", "raised"}
    /\ calls < callLimit
    /\ calls' = calls + 1
    /\ clock' = clock + 1
    /\ before' = fs
    /\ copiedDataBytes' = 0
    /\ numberOfPurgedFiles' = 0
    /\ numberOfSkippedCopies' = 0
    /\ queue' = IF done THEN <<>> ELSE queue
    /\ done' = FALSE
    /\ results' = <<>>
    /\ idx' = 1
    /\ cur' = [root |-> <<>>, dirs |-> {}, files |-> {}]
    /\ walk' = IF IsDir(fs, cfg.source) THEN <<cfg.source>> ELSE <<>>
    /\ pc' = IF IsDir(fs, cfg.source) THEN "walk" ELSE "single"
    /\ history' = [history EXCEPT !.outcomes = Append(@, pc)]
    /\ stdout' = IF cfg.quiet THEN stdout
                 ELSE stdout \cup {"banner", "configuration", "submitting"}
    /\ UNCHANGED <<cfg, fs, faults, callLimit, jobs>>

\* execute() up to the dispatch on the kind of the source in _submitOperations.
execute ==
    /\ pc \in {"idle", "returned", "raised"}
    /\ calls < callLimit
    /\ calls' = calls + 1
    /\ clock' = clock + 1
    /\ before' = fs
    /\ copiedDataBytes' = 0
    /\ numberOfPurgedFiles' = 0
    /\ numberOfSkippedCopies' = 0
    /\ queue' = IF done THEN <<>> ELSE queue
    /\ done' = FALSE
    /\ results' = <<>>
    /\ idx' = 1
    /\ cur' = [root |-> <<>>, dirs |-> {}, files |-> {}]
    /\ walk' = IF IsDir(fs, cfg.source) THEN <<cfg.source>> ELSE <<>>
    /\ pc' = IF IsDir(fs, cfg.source) THEN "walk"
             ELSE IF IsFile(fs, cfg.source) THEN "single"
             ELSE "raised"
    /\ history' = [history EXCEPT !.outcomes = Append(@, pc)]
    /\ stdout' = IF cfg.quiet THEN stdout
                 ELSE stdout \cup {"banner", "configuration", "submitting"}
    /\ UNCHANGED <<cfg, fs, faults, callLimit, jobs>>

\* walkDirectory with the purge job submitted whatever purgeDestination says.
walkDirectoryAlwaysPurging ==
    /\ pc = "walk"
    /\ walk # <<>>
    /\ LET root == Head(walk)
           dirs == SubDirs(fs, root)
           files == Files(fs, root)
       IN /\ \E order \in Orders(dirs) :
                walk' = [i \in 1..Len(order) |-> root \o <<order[i]>>] \o Tail(walk)
          /\ cur' = [root |-> root, dirs |-> dirs, files |-> files]
          /\ Submitted(<<PurgeJob(destDir(root), files \cup dirs, calls)>>)
          /\ pc' = IF files = {} /\ dirs = {} /\ cfg.ignoreEmptyDirectories
                   THEN (IF walk' = <<>> THEN "drain" ELSE "walk")
                   ELSE "mkdir"
    /\ stdout' = IF pc' = "drain"
                 THEN submissionComplete(checkAndPrintSpeedIfNeeded(stdout))
                 ELSE checkAndPrintSpeedIfNeeded(stdout)
    /\ UNCHANGED <<cfg, history, fs, clock, faults, calls, callLimit, done, idx, counters, before>>

\* One iteration of "for root, dirs, files in walk(self.source)" up to the
\* test for an empty directory: the listing and the purge job.
walkDirectory ==
    /\ pc = "walk"
    /\ walk # <<>>
    /\ LET root == Head(walk)
           dirs == SubDirs(fs, root)
           files == Files(fs, root)
       IN /\ \E order \in Orders(dirs) :
                walk' = [i \in 1..Len(order) |-> root \o <<order[i]>>] \o Tail(walk)
          /\ cur' = [root |-> root, dirs |-> dirs, files |-> files]
          /\ IF cfg.purgeDestination
             THEN Submitted(<<PurgeJob(destDir(root), files \cup dirs, calls)>>)
             ELSE UNCHANGED <<jobs, queue, results>>
          /\ pc' = IF files = {} /\ dirs = {} /\ cfg.ignoreEmptyDirectories
                   THEN (IF walk' = <<>> THEN "drain" ELSE "walk")
                   ELSE "mkdir"
    /\ stdout' = IF pc' = "drain"
                 THEN submissionComplete(checkAndPrintSpeedIfNeeded(stdout))
                 ELSE checkAndPrintSpeedIfNeeded(stdout)
    /\ UNCHANGED <<cfg, history, fs, clock, faults, calls, callLimit, done, idx, counters, before>>

\* The rest of the iteration: os.mkdir, shutil.copystat, one copy job per file.
makeDirectory ==
    /\ pc = "mkdir"
    /\ LET dd == destDir(cur.root)
           made == MkdirIgnoringErrors(fs, dd, clock)
           statOk == Exists(made, cur.root) /\ dd \in DOMAIN made
       IN IF cfg.copyPermissions /\ ~statOk /\ ~cfg.ignoreErrorOnCopy
          THEN /\ fs' = made
               /\ pc' = "raised"
               /\ UNCHANGED <<jobs, queue, results>>
          ELSE /\ fs' = IF cfg.copyPermissions /\ statOk THEN CopyStat(made, cur.root, dd) ELSE made
               /\ \E order \in Orders(cur.files) :
                     Submitted([i \in 1..Len(order) |->
                                   CopyJob(cur.root \o <<order[i]>>, dd \o <<order[i]>>, calls)])
               /\ pc' = IF walk = <<>> THEN "drain" ELSE "walk"
    /\ stdout' = IF pc' = "drain" THEN submissionComplete(stdout) ELSE stdout
    /\ UNCHANGED <<cfg, history, clock, faults, calls, callLimit, done, walk, cur, idx, counters, before>>

\* submitSingleFile with the destination path used as it is, directory or not.
submitSingleFileVerbatim ==
    /\ pc = "single"
    /\ LET destFile == cfg.destination
           dd == Parent(destFile)
       IN /\ fs' = MkdirIgnoringErrors(fs, dd, clock)
          /\ Submitted(<<CopyJob(cfg.source, destFile, calls)>>
                       \o (IF cfg.purgeDestination
                           THEN <<PurgeJob(dd, {BaseName(destFile)}, calls)>>
                           ELSE <<>>))
    /\ pc' = "drain"
    /\ stdout' = submissionComplete(stdout)
    /\ UNCHANGED <<cfg, history, clock, faults, calls, callLimit, done, walk, cur, idx, counters,
                   before>>

\* The single-file branch of _submitOperations.
submitSingleFile ==
    /\ pc = "single"
    /\ LET destFile == IF IsDir(fs, cfg.destination)
                       THEN cfg.destination \o <<BaseName(cfg.source)>>
                       ELSE cfg.destination
           dd == Parent(destFile)
       IN /\ fs' = MkdirIgnoringErrors(fs, dd, clock)
          /\ Submitted(<<CopyJob(cfg.source, destFile, calls)>>
                       \o (IF cfg.purgeDestination
                           THEN <<PurgeJob(dd, {BaseName(destFile)}, calls)>>
                           ELSE <<>>))
    /\ pc' = "drain"
    /\ stdout' = submissionComplete(stdout)
    /\ UNCHANGED <<cfg, history, clock, faults, calls, callLimit, done, walk, cur, idx, counters, before>>

\* drain with itm.get returning at once for a job that has not resolved yet.
drainWithoutWaiting ==
    /\ pc = "drain"
    /\ idx <= Len(results)
    /\ IF jobs[results[idx]].st # "failed"
       THEN /\ idx' = idx + 1
            /\ pc' = pc
       ELSE /\ idx' = idx
            /\ pc' = "raised"
    /\ stdout' = checkAndPrintSpeedIfNeeded(stdout)
    /\ UNCHANGED <<cfg, history, fs, clock, faults, calls, callLimit, done, walk, cur, jobs, queue,
                   results, counters, before>>

\* drain with the exception of a failed job dropped instead of re-raised.
drainSwallowing ==
    /\ pc = "drain"
    /\ idx <= Len(results)
    /\ Resolved(results[idx])
    /\ idx' = idx + 1
    /\ pc' = pc
    /\ stdout' = checkAndPrintSpeedIfNeeded(stdout)
    /\ UNCHANGED <<cfg, history, fs, clock, faults, calls, callLimit, done, walk, cur, jobs, queue,
                   results, counters, before>>

\* "for idx, itm in enumerate(results)": itm.get returns or re-raises once
\* the job has resolved; until then the loop polls.
drain ==
    /\ pc = "drain"
    /\ idx <= Len(results)
    /\ Resolved(results[idx])
    /\ IF jobs[results[idx]].st = "ok"
       THEN /\ idx' = idx + 1
            /\ pc' = pc
       ELSE /\ idx' = idx
            /\ pc' = "raised"
    /\ stdout' = checkAndPrintSpeedIfNeeded(stdout)
    /\ UNCHANGED <<cfg, history, fs, clock, faults, calls, callLimit, done, walk, cur, jobs, queue,
                   results, counters, before>>

\* pool.close(); pool.join(); the removal of a moved source tree; _done.
closeAndFinish ==
    /\ pc = "drain"
    /\ idx > Len(results)
    /\ queue = <<>>
    /\ Running = {}
    /\ fs' = IF cfg.move /\ IsDir(fs, cfg.source) THEN RmTree(fs, cfg.source) ELSE fs
    /\ done' = TRUE
    /\ pc' = "returned"
    /\ stdout' = summary(stdout)
    /\ UNCHANGED <<cfg, history, clock, faults, calls, callLimit, walk, cur, jobs, queue, results, idx,
                   counters, before>>

\* ---------------------------------------------------------------- workers
\* startJob with one worker fewer than numWorkers taking tasks.
startJobOneWorkerShort ==
    /\ queue # <<>>
    /\ Cardinality(Running) < cfg.numWorkers - 1
    /\ LET j == Head(queue)
       IN jobs' = [jobs EXCEPT
                     ![j].st = "running",
                     ![j].pc = IF jobs[j].kind = "purge" THEN "list"
                               ELSE IF cfg.skipSameLookingFiles THEN "stat" ELSE "open",
                     ![j].stack = IF jobs[j].kind = "purge"
                                  THEN <<[dir |-> jobs[j].dst, keep |-> jobs[j].keep,
                                          todo |-> {}, count |-> 0]>>
                                  ELSE <<>>]
    /\ queue' = Tail(queue)
    /\ UNCHANGED <<cfg, stdout, history, fs, clock, faults, pc, calls, callLimit, done, walk, cur, results, idx,
                   counters, before>>

\* A worker thread takes the next task of the queue when one is free.
startJob ==
    /\ queue # <<>>
    /\ Cardinality(Running) < cfg.numWorkers
    /\ LET j == Head(queue)
       IN jobs' = [jobs EXCEPT
                     ![j].st = "running",
                     ![j].pc = IF jobs[j].kind = "purge" THEN "list"
                               ELSE IF cfg.skipSameLookingFiles THEN "stat" ELSE "open",
                     ![j].stack = IF jobs[j].kind = "purge"
                                  THEN <<[dir |-> jobs[j].dst, keep |-> jobs[j].keep,
                                          todo |-> {}, count |-> 0]>>
                                  ELSE <<>>]
    /\ queue' = Tail(queue)
    /\ UNCHANGED <<cfg, stdout, history, fs, clock, faults, pc, calls, callLimit, done, walk, cur, results, idx,
                   counters, before>>

\* _copyFile, line 159 and the return: self.addCopiedDataBytes(copiedDataLength).
Returned(job, how) ==
    [job EXCEPT !.st = "ok", !.pc = "end", !.len = 0, !.added = @ + job.len, !.how = how]
\* An exception that leaves the job's function: the handle re-raises it. The
\* job keeps the place (pc) of the call that raised.
Raised(job) == [job EXCEPT !.st = "failed"]

\* copyFileExcept with the exception re-raised whatever ignoreErrorOnCopy says.
copyFileExceptRaising(j, job) ==
    /\ jobs' = [jobs EXCEPT ![j] = Raised(job)]
    /\ copiedDataBytes' = copiedDataBytes

\* "except Exception: if not self.ignoreErrorOnCopy: raise", then line 159.
\* job holds the locals at the time of the exception.
copyFileExcept(j, job) ==
    IF cfg.ignoreErrorOnCopy
    THEN /\ jobs' = [jobs EXCEPT ![j] = Returned(job, "ignored")]
         /\ copiedDataBytes' = copiedDataBytes + job.len
    ELSE /\ jobs' = [jobs EXCEPT ![j] = Raised(job)]
         /\ copiedDataBytes' = copiedDataBytes

\* What follows the two with blocks: the else clause of the try, then line 159.
\* The job goes on to its next file-system call, or returns when none is left.
copyFileAfterTransfer(j, job) ==
    IF cfg.copyPermissions
    THEN /\ jobs' = [jobs EXCEPT ![j] = [job EXCEPT !.pc = "copystat"]]
         /\ copiedDataBytes' = copiedDataBytes
    ELSE IF cfg.move
    THEN /\ jobs' = [jobs EXCEPT ![j] = [job EXCEPT !.pc = "remove"]]
         /\ copiedDataBytes' = copiedDataBytes
    ELSE /\ jobs' = [jobs EXCEPT ![j] = Returned(job, "copied")]
         /\ copiedDataBytes' = copiedDataBytes + job.len

\* copyFileStat without self.addToSkippedCopies(1).
copyFileStatUncounted(j) ==
    /\ jobs[j].st = "running"
    /\ jobs[j].pc = "stat"
    /\ LET s == jobs[j].src
           d == jobs[j].dst
       IN IF ~Exists(fs, d)
          THEN jobs' = [jobs EXCEPT ![j] = IF StatNotADirectory(fs, d)
                                        THEN Raised(jobs[j])
                                        ELSE [jobs[j] EXCEPT !.pc = "open"]]
          ELSE IF ~Exists(fs, s)
          THEN jobs' = [jobs EXCEPT ![j] = Raised(jobs[j])]
          ELSE IF statMatch(fs[s], fs[d])
          THEN jobs' = [jobs EXCEPT ![j] = Returned(jobs[j], "skipped")]
          ELSE jobs' = [jobs EXCEPT ![j].pc = "open"]
    /\ UNCHANGED <<cfg, stdout, history, fs, clock, faults, pc, calls, callLimit, done, walk, cur, queue,
                   results, idx, counters, before>>

\* _copyFile, lines 116-127: the skip of a same-looking destination.
copyFileStat(j) ==
    /\ jobs[j].st = "running"
    /\ jobs[j].pc = "stat"
    /\ LET s == jobs[j].src
           d == jobs[j].dst
       IN IF ~Exists(fs, d)
          THEN \* FileNotFoundError is passed over; any other error leaves the job
               /\ jobs' = [jobs EXCEPT ![j] = IF StatNotADirectory(fs, d)
                                             THEN Raised(jobs[j])
                                             ELSE [jobs[j] EXCEPT !.pc = "open"]]
               /\ numberOfSkippedCopies' = numberOfSkippedCopies
          ELSE IF ~Exists(fs, s)
          THEN /\ jobs' = [jobs EXCEPT ![j] = Raised(jobs[j])]
               /\ numberOfSkippedCopies' = numberOfSkippedCopies
          ELSE IF statMatch(fs[s], fs[d])
          THEN /\ jobs' = [jobs EXCEPT ![j] = Returned(jobs[j], "skipped")]
               /\ numberOfSkippedCopies' = numberOfSkippedCopies + 1
          ELSE /\ jobs' = [jobs EXCEPT ![j].pc = "open"]
               /\ numberOfSkippedCopies' = numberOfSkippedCopies
    /\ UNCHANGED <<cfg, stdout, history, fs, clock, faults, pc, calls, callLimit, done, walk, cur, queue, results,
                   idx, copiedDataBytes, numberOfPurgedFiles, before>>

\* copyFileOpen without the test "if not self.zeroLengthFiles".
copyFileOpenAlwaysCopying(j) ==
    /\ jobs[j].st = "running"
    /\ jobs[j].pc = "open"
    /\ LET s == jobs[j].src
           d == jobs[j].dst
           canOpen == IsFile(fs, s) /\ CanOpenWrite(fs, d)
       IN \/ /\ canOpen
             /\ fs' = OpenWrite(fs, d, clock)
             /\ jobs' = [jobs EXCEPT ![j].pc = "loop", ![j].handle = fs[s].data]
             /\ copiedDataBytes' = copiedDataBytes
             /\ faults' = faults
          \/ /\ ~canOpen \/ faults > 0
             /\ faults' = IF canOpen THEN faults - 1 ELSE faults
             /\ copyFileExcept(j, jobs[j])
             /\ fs' = fs
    /\ UNCHANGED <<cfg, stdout, history, clock, pc, calls, callLimit, done, walk, cur, queue, results, idx,
                   numberOfPurgedFiles, numberOfSkippedCopies, before>>

\* _copyFile, lines 132-134: the two open calls. With zeroLengthFiles the
\* with blocks end at once.
copyFileOpen(j) ==
    /\ jobs[j].st = "running"
    /\ jobs[j].pc = "open"
    /\ LET s == jobs[j].src
           d == jobs[j].dst
           canOpen == IsFile(fs, s) /\ CanOpenWrite(fs, d)
       IN \/ /\ canOpen
             /\ fs' = OpenWrite(fs, d, clock)
             /\ IF cfg.zeroLengthFiles
                THEN copyFileAfterTransfer(j, jobs[j])
                ELSE /\ jobs' = [jobs EXCEPT ![j].pc = "loop", ![j].handle = fs[s].data]
                     /\ copiedDataBytes' = copiedDataBytes
             /\ faults' = faults
          \/ \* an open fails: by the state of the file system, or injected
             /\ ~canOpen \/ faults > 0
             /\ faults' = IF canOpen THEN faults - 1 ELSE faults
             /\ copyFileExcept(j, jobs[j])
             /\ fs' = fs
    /\ UNCHANGED <<cfg, stdout, history, clock, pc, calls, callLimit, done, walk, cur, queue, results, idx,
                   numberOfPurgedFiles, numberOfSkippedCopies, before>>

\* srcFile.read(self.bufferSize) at offset pos. The open file keeps its bytes
\* when its name is removed meanwhile: handle holds them.
ReadChunk(handle, pos) == SubSeq(handle, pos + 1, Min(pos + cfg.bufferSize, Len(handle)))
\* destFile.write(buf): the destination grows and is stamped.
WriteChunk(f, d, buf, t) ==
    IF IsFile(f, d) THEN [f EXCEPT ![d].data = @ \o buf, ![d].mtime = t] ELSE f

\* copyFileReport without "copiedDataLength = 0".
copyFileReportKeepingLength(j) ==
    /\ jobs[j].st = "running"
    /\ jobs[j].pc = "loop"
    /\ jobs[j].len > 0
    /\ jobs[j].added < MaxFileLen
    /\ copiedDataBytes' = copiedDataBytes + jobs[j].len
    /\ jobs' = [jobs EXCEPT ![j].added = @ + jobs[j].len]
    /\ UNCHANGED <<cfg, stdout, history, fs, clock, faults, pc, calls, callLimit, done, walk, cur, queue, results,
                   idx, numberOfPurgedFiles, numberOfSkippedCopies, before>>

\* _copyFile, lines 137-141: the reporting interval has passed.
copyFileReport(j) ==
    /\ jobs[j].st = "running"
    /\ jobs[j].pc = "loop"
    /\ jobs[j].len > 0
    /\ copiedDataBytes' = copiedDataBytes + jobs[j].len
    /\ jobs' = [jobs EXCEPT ![j].len = 0, ![j].added = @ + jobs[j].len]
    /\ UNCHANGED <<cfg, stdout, history, fs, clock, faults, pc, calls, callLimit, done, walk, cur, queue, results,
                   idx, numberOfPurgedFiles, numberOfSkippedCopies, before>>

\* _copyFile, lines 143-148: one read and one write.
copyFileChunk(j) ==
    /\ jobs[j].st = "running"
    /\ jobs[j].pc = "loop"
    /\ LET buf == ReadChunk(jobs[j].handle, jobs[j].pos)
           n == jobs[j].len + Len(buf)
       IN \/ /\ buf = <<>>
             /\ copyFileAfterTransfer(j, jobs[j])
             /\ UNCHANGED <<fs, faults>>
          \/ /\ buf # <<>>
             /\ fs' = WriteChunk(fs, jobs[j].dst, buf, clock)
             /\ jobs' = [jobs EXCEPT ![j].pos = @ + Len(buf), ![j].len = n]
             /\ UNCHANGED <<copiedDataBytes, faults>>
          \/ \* the read fails
             /\ faults > 0
             /\ faults' = faults - 1
             /\ copyFileExcept(j, jobs[j])
             /\ fs' = fs
          \/ \* the write fails, after copiedDataLength has been raised
             /\ buf # <<>>
             /\ faults > 0
             /\ faults' = faults - 1
             /\ copyFileExcept(j, [jobs[j] EXCEPT !.pos = @ + Len(buf), !.len = n])
             /\ fs' = fs
    /\ UNCHANGED <<cfg, stdout, history, clock, pc, calls, callLimit, done, walk, cur, queue, results, idx,
                   numberOfPurgedFiles, numberOfSkippedCopies, before>>

\* _copyFile, lines 153-154: shutil.copystat, in the else clause of the try.
copyFileCopystat(j) ==
    /\ jobs[j].st = "running"
    /\ jobs[j].pc = "copystat"
    /\ LET s == jobs[j].src
           d == jobs[j].dst
       IN \/ /\ Exists(fs, s)
             /\ Exists(fs, d)
             /\ fs' = CopyStat(fs, s, d)
             /\ IF cfg.move
                THEN /\ jobs' = [jobs EXCEPT ![j].pc = "remove"]
                     /\ copiedDataBytes' = copiedDataBytes
                ELSE /\ jobs' = [jobs EXCEPT ![j] = Returned(jobs[j], "copied")]
                     /\ copiedDataBytes' = copiedDataBytes + jobs[j].len
             /\ faults' = faults
          \/ /\ ~(Exists(fs, s) /\ Exists(fs, d)) \/ faults > 0
             /\ faults' = IF Exists(fs, s) /\ Exists(fs, d) THEN faults - 1 ELSE faults
             /\ jobs' = [jobs EXCEPT ![j] = Raised(jobs[j])]
             /\ UNCHANGED <<fs, copiedDataBytes>>
    /\ UNCHANGED <<cfg, stdout, history, clock, pc, calls, callLimit, done, walk, cur, queue, results, idx,
                   numberOfPurgedFiles, numberOfSkippedCopies, before>>

\* _copyFile, lines 156-157: os.remove(source), then line 159.
copyFileRemove(j) ==
    /\ jobs[j].st = "running"
    /\ jobs[j].pc = "remove"
    /\ IF IsFile(fs, jobs[j].src)
       THEN /\ fs' = Remove(fs, jobs[j].src)
            /\ jobs' = [jobs EXCEPT ![j] = Returned(jobs[j], "copied")]
            /\ copiedDataBytes' = copiedDataBytes + jobs[j].len
       ELSE /\ fs' = fs
            /\ jobs' = [jobs EXCEPT ![j] = Raised(jobs[j])]
            /\ copiedDataBytes' = copiedDataBytes
    /\ UNCHANGED <<cfg, stdout, history, clock, faults, pc, calls, callLimit, done, walk, cur, queue, results, idx,
                   numberOfPurgedFiles, numberOfSkippedCopies, before>>

\* _cleanDestinationDirectory keeps one frame per nested call: the directory,
\* the names to keep, the listed names still to visit, and count.
RECURSIVE PurgeUnwind(_)
\* The frames whose loop has ended return: each adds its count to
\* numberOfPurgedFiles. The result is the stack left and the sum added.
PurgeUnwind(stack) ==
    IF stack = <<>> \/ stack[Len(stack)].todo # {}
    THEN [stack |-> stack, added |-> 0]
    ELSE LET rest == PurgeUnwind(SubSeq(stack, 1, Len(stack) - 1))
         IN [stack |-> rest.stack, added |-> rest.added + stack[Len(stack)].count]

\* PurgeContinue without self.addToPurgedFileCount(count).
PurgeContinueUncounted(j, st) ==
    LET u == PurgeUnwind(st)
    IN /\ jobs' = [jobs EXCEPT ![j] = IF u.stack = <<>>
                                     THEN [jobs[j] EXCEPT !.st = "ok", !.pc = "end", !.stack = <<>>]
                                     ELSE [jobs[j] EXCEPT !.pc = "entry", !.stack = u.stack]]
       /\ numberOfPurgedFiles' = numberOfPurgedFiles

\* The job after a step that left it the stack st.
PurgeContinue(j, st) ==
    LET u == PurgeUnwind(st)
    IN /\ jobs' = [jobs EXCEPT ![j] = IF u.stack = <<>>
                                     THEN [jobs[j] EXCEPT !.st = "ok", !.pc = "end", !.stack = <<>>]
                                     ELSE [jobs[j] EXCEPT !.pc = "entry", !.stack = u.stack]]
       /\ numberOfPurgedFiles' = numberOfPurgedFiles + u.added

\* _cleanDestinationDirectory, line 163: os.listdir(destinationDirectory).
cleanDestinationDirectoryList(j) ==
    /\ jobs[j].st = "running"
    /\ jobs[j].pc = "list"
    /\ LET st == jobs[j].stack
           top == st[Len(st)]
       IN IF IsDir(fs, top.dir)
          THEN PurgeContinue(j, [st EXCEPT ![Len(st)].todo = ListDir(fs, top.dir) \ top.keep])
          ELSE /\ jobs' = [jobs EXCEPT ![j] = Raised(jobs[j])]
               /\ numberOfPurgedFiles' = numberOfPurgedFiles
    /\ UNCHANGED <<cfg, stdout, history, fs, clock, faults, pc, calls, callLimit, done, walk, cur, queue, results,
                   idx, copiedDataBytes, numberOfSkippedCopies, before>>

\* _cleanDestinationDirectory, lines 164-171: one listed name that is not in
\* srcListing.
cleanDestinationDirectoryEntry(j) ==
    /\ jobs[j].st = "running"
    /\ jobs[j].pc = "entry"
    /\ LET st == jobs[j].stack
           top == st[Len(st)]
       IN \E path \in top.todo :
            LET fullPath == top.dir \o <<path>>
                left == [st EXCEPT ![Len(st)].todo = @ \ {path}]
            IN IF IsFile(fs, fullPath)
               THEN /\ fs' = Remove(fs, fullPath)
                    /\ PurgeContinue(j, [left EXCEPT ![Len(st)].count = @ + 1])
               ELSE IF IsDir(fs, fullPath)
               THEN /\ fs' = fs
                    /\ jobs' = [jobs EXCEPT
                                  ![j].pc = "list",
                                  ![j].stack = Append(left, [dir |-> fullPath, keep |-> {},
                                                             todo |-> {}, count |-> 0])]
                    /\ numberOfPurgedFiles' = numberOfPurgedFiles
               ELSE /\ fs' = fs
                    /\ PurgeContinue(j, left)
    /\ UNCHANGED <<cfg, stdout, history, clock, faults, pc, calls, callLimit, done, walk, cur, queue, results,
                   idx, copiedDataBytes, numberOfSkippedCopies, before>>

\* ------------------------------------------------------ initial states
SRC == <<"S">>
DST == <<"D">>

\* The bytes of a source file of n bytes, and other bytes of the same length.
SrcData(n) == [i \in 1..n |-> i]
OtherData(n) == [i \in 1..n |-> i + MaxFileLen + 1]

\* Source nodes are older than the run and carry a mode of their own.
SrcFile(n) == [kind |-> "file", data |-> SrcData(n), mode |-> "src", mtime |-> 0, atime |-> 1]
SrcDirNode == [kind |-> "dir", data |-> <<>>, mode |-> "src", mtime |-> 0, atime |-> 1]
\* Destination nodes that were there before the run.
OldFile(data) == [kind |-> "file", data |-> data, mode |-> "old", mtime |-> 1, atime |-> 0]
OldDir == [kind |-> "dir", data |-> <<>>, mode |-> "old", mtime |-> 1, atime |-> 0]
\* A destination file with the size and the times of the source file, and
\* other content.
SameLooking(node) == [node EXCEPT !.data = OtherData(Len(node.data)), !.mode = "old"]

EmptyFs == [p \in {} |-> OldDir]

SourceTrees ==
    [none   |-> EmptyFs,
     file   |-> (SRC :> SrcFile(MaxFileLen)),
     bare   |-> (SRC :> SrcDirNode),
     deep   |-> (SRC :> SrcDirNode) @@ (SRC \o <<"f">> :> SrcFile(1))
                @@ (SRC \o <<"d">> :> SrcDirNode) @@ (SRC \o <<"d", "f">> :> SrcFile(1)),
     hollow |-> (SRC :> SrcDirNode) @@ (SRC \o <<"f">> :> SrcFile(MaxFileLen))
                @@ (SRC \o <<"e">> :> SrcDirNode)]

\* The destination as a copy of the source tree t made earlier: every file
\* looks the same as its source file.
Mirror(t, dest) ==
    [p \in {dest \o SubSeq(q, 2, Len(q)) : q \in DOMAIN t} |->
        LET q == SRC \o SubSeq(p, Len(dest) + 1, Len(p))
        IN IF t[q].kind = "file" THEN SameLooking(t[q]) ELSE OldDir]

DestinationStates(t, dest) ==
    [absent |-> EmptyFs,
     extra  |-> (dest :> OldDir) @@ (dest \o <<"y">> :> OldFile(<<9>>))
                @@ (dest \o <<"x">> :> OldDir)
                @@ (dest \o <<"x", "f">> :> OldFile(<<9>>)),
     mirror |-> Mirror(t, dest),
     clash  |-> (dest :> OldDir) @@ (dest \o <<"f">> :> OldDir)
                @@ (dest \o <<"d">> :> OldFile(<<9>>)) @@ (dest \o <<"e">> :> OldFile(<<9>>)),
     isfile |-> (dest :> OldFile(OtherData(MaxFileLen))),
     orphan |-> EmptyFs]

\* The destination argument: in the state "orphan" its parent directory is
\* missing.
DestinationPath(dn) == IF dn = "orphan" THEN <<"P", "D">> ELSE DST

Flags == [zeroLengthFiles : BOOLEAN, ignoreEmptyDirectories : BOOLEAN,
          copyPermissions : BOOLEAN, move : BOOLEAN, purgeDestination : BOOLEAN,
          skipSameLookingFiles : BOOLEAN, ignoreErrorOnCopy : BOOLEAN]

\* PyCopier.__init__ called with flags fl on the trees named tn and dn.
Constructed(fl, q, tn, dn, workers, buffer, limit, budget) ==
    /\ cfg = [source |-> SRC, destination |-> DestinationPath(dn), numWorkers |-> workers,
              bufferSize |-> buffer,
              zeroLengthFiles |-> fl.zeroLengthFiles,
              ignoreEmptyDirectories |-> fl.ignoreEmptyDirectories,
              copyPermissions |-> fl.copyPermissions,
              move |-> fl.move,
              purgeDestination |-> fl.purgeDestination,
              skipSameLookingFiles |-> fl.skipSameLookingFiles,
              ignoreErrorOnCopy |-> fl.ignoreErrorOnCopy,
              quiet |-> q]
    /\ fs = SourceTrees[tn] @@ DestinationStates(SourceTrees[tn], DestinationPath(dn))[dn]
    /\ before = fs
    /\ history = [outcomes |-> <<>>, touched |-> {}]
    /\ stdout = {}
    /\ clock = 2
    /\ faults = budget
    /\ pc = "idle"
    /\ calls = 0
    /\ callLimit = limit
    /\ done = TRUE
    /\ walk = <<>>
    /\ cur = [root |-> <<>>, dirs |-> {}, files |-> {}]
    /\ jobs = <<>>
    /\ queue = <<>>
    /\ results = <<>>
    /\ idx = 1
    /\ copiedDataBytes = 0
    /\ numberOfPurgedFiles = 0
    /\ numberOfSkippedCopies = 0

Init ==
    \E fl \in Flags, tn \in DOMAIN SourceTrees,
       dn \in {"absent", "extra", "mirror", "clash", "isfile", "orphan"},
       workers \in 1..MaxWorkers, buffer \in 1..MaxBuf :
        Constructed(fl, FALSE, tn, dn, workers, buffer, 1, MaxFaults)

Next ==
    \/ execute
    \/ walkDirectory
    \/ makeDirectory
    \/ submitSingleFile
    \/ drain
    \/ closeAndFinish
    \/ startJob
    \/ \E j \in 1..Len(jobs) : copyFileStat(j)
    \/ \E j \in 1..Len(jobs) : copyFileOpen(j)
    \/ \E j \in 1..Len(jobs) : copyFileReport(j)
    \/ \E j \in 1..Len(jobs) : copyFileChunk(j)
    \/ \E j \in 1..Len(jobs) : copyFileCopystat(j)
    \/ \E j \in 1..Len(jobs) : copyFileRemove(j)
    \/ \E j \in 1..Len(jobs) : cleanDestinationDirectoryList(j)
    \/ \E j \in 1..Len(jobs) : cleanDestinationDirectoryEntry(j)

Spec == Init /\ [][Next]_vars

\* ------------------------------------------------------------ quiet or not
\* One call, with quiet set or left at its default.
InitQuiet ==
    \E fl \in Flags, q \in BOOLEAN, tn \in {"none", "file", "deep"},
       dn \in {"absent", "mirror"}, workers \in 1..MaxWorkers :
        Constructed(fl, q, tn, dn, workers, MaxBuf, 1, MaxFaults)

SpecQuiet == InitQuiet /\ [][Next]_vars

\* ---------------------------------------------------------------- progress
\* One call on a source of either kind, for the claims about termination.
InitLive ==
    \E fl \in Flags, tn \in {"file", "deep"}, dn \in {"extra"}, workers \in 1..MaxWorkers :
        Constructed(fl, FALSE, tn, dn, workers, MaxBuf, 1, MaxFaults)

\* The steps of the thread that called execute(), and those of the workers.
coordinatorStep ==
    walkDirectory \/ makeDirectory \/ submitSingleFile \/ drain \/ closeAndFinish

workerStep ==
    \E j \in 1..Len(jobs) :
        \/ copyFileStat(j)
        \/ copyFileOpen(j)
        \/ copyFileReport(j)
        \/ copyFileChunk(j)
        \/ copyFileCopystat(j)
        \/ copyFileRemove(j)
        \/ cleanDestinationDirectoryList(j)
        \/ cleanDestinationDirectoryEntry(j)

\* The calling thread keeps running, a free worker takes the next task, and a
\* job that a worker has started keeps being run.
Fairness ==
    /\ WF_vars(coordinatorStep)
    /\ WF_vars(startJob)
    /\ WF_vars(workerStep)

SpecLive == InitLive /\ [][Next]_vars /\ Fairness

\* ------------------------------------------------------------- two calls
\* The files now in the source.
SourceFiles == {p \in DOMAIN fs : IsPrefix(cfg.source, p) /\ IsFile(fs, p)}

\* What the caller may do to a source file: set its modification time, write
\* other bytes into it, or do that and put its times back.
Touched(node, kind, t) ==
    IF kind = "mtime" THEN [node EXCEPT !.mtime = t]
    ELSE IF kind = "rewrite" THEN [node EXCEPT !.data = OtherData(Len(@)), !.mtime = t]
    ELSE [node EXCEPT !.data = OtherData(Len(@))]

\* Between two calls that it makes, the caller changes one file of the source.
touchSource ==
    /\ pc = "returned"
    /\ calls < callLimit
    /\ history.touched = {}
    /\ clock' = clock + 1
    /\ \E p \in SourceFiles, kind \in {"mtime", "rewrite", "content"} :
          /\ fs' = [fs EXCEPT ![p] = Touched(@, kind, clock')]
          /\ history' = [history EXCEPT !.touched = {[path |-> p, kind |-> kind]}]
    /\ UNCHANGED <<cfg, stdout, faults, pc, calls, callLimit, done, walk, cur, jobs, queue, results,
                   idx, counters, before>>

\* The caller calls execute() twice on the same object.
InitTwice ==
    \E fl \in {g \in Flags : g.skipSameLookingFiles /\ ~g.ignoreEmptyDirectories},
       tn \in {"file", "deep"}, dn \in {"absent", "mirror", "clash"},
       workers \in 1..MaxWorkers :
        Constructed(fl, FALSE, tn, dn, workers, MaxBuf, 2, 0)

NextTwice ==
    \/ Next
    \/ touchSource

SpecTwice == InitTwice /\ [][NextTwice]_vars

\* ------------------------------------------------------------ properties
\* The source as it was when execute() was called, and where the run puts it.
DirectoryMode == IsDir(before, cfg.source)
SingleFileMode == IsFile(before, cfg.source)
SourceFilesBefore == {p \in DOMAIN before : IsPrefix(cfg.source, p) /\ before[p].kind = "file"}
SourceDirsBefore == {p \in DOMAIN before : IsPrefix(cfg.source, p) /\ before[p].kind = "dir"}
TargetOf(p) ==
    IF SingleFileMode
    THEN (IF IsDir(before, cfg.destination)
          THEN cfg.destination \o <<BaseName(cfg.source)>>
          ELSE cfg.destination)
    ELSE destDir(p)
CopiedTo(p, d) == IsFile(fs, d) /\ fs[d].data = before[p].data
PlainCopy ==
    /\ ~cfg.zeroLengthFiles
    /\ ~cfg.move
    /\ ~cfg.purgeDestination
    /\ ~cfg.skipSameLookingFiles

\* C1 as claimed: when execute() returns normally on a directory source (zero-length
\* mode, move, purge and skip off), every source file is in the destination with
\* the same bytes and every source directory is there, except an empty one that
\* ignore-empty-directories leaves uncreated.
C1_AsClaimed ==
    (pc = "returned" /\ DirectoryMode /\ PlainCopy) =>
        /\ \A p \in SourceFilesBefore : CopiedTo(p, destDir(p))
        /\ \A p \in SourceDirsBefore :
              IF ListDir(before, p) = {} /\ cfg.ignoreEmptyDirectories
              THEN Exists(fs, destDir(p)) <=> Exists(before, destDir(p))
              ELSE IsDir(fs, destDir(p))

\* C1, amended: the same with ignore-error-on-copy off as well, and a source
\* directory that holds no file may be missing from the destination when its
\* path there was taken by a regular file or has no parent directory (every
\* failure of os.mkdir is passed over).
C1_CopyIsFaithful ==
    (pc = "returned" /\ DirectoryMode /\ PlainCopy /\ ~cfg.ignoreErrorOnCopy) =>
        /\ \A p \in SourceFilesBefore : CopiedTo(p, destDir(p))
        /\ \A p \in SourceDirsBefore :
              IF ListDir(before, p) = {} /\ cfg.ignoreEmptyDirectories
              THEN Exists(fs, destDir(p)) <=> Exists(before, destDir(p))
              ELSE \/ IsDir(fs, destDir(p))
                   \/ /\ Files(before, p) = {}
                      /\ IsFile(before, destDir(p)) \/ ~IsDir(fs, Parent(destDir(p)))

C1_Witness ==
    /\ pc = "returned"
    /\ DirectoryMode
    /\ PlainCopy
    /\ ~cfg.ignoreErrorOnCopy
    /\ cfg.numWorkers > 1
    /\ IsFile(before, SRC \o <<"d", "f">>)
    /\ IsFile(before, DST \o <<"d", "f">>)
    /\ before[DST \o <<"d", "f">>].data # before[SRC \o <<"d", "f">>].data
    /\ CopiedTo(SRC \o <<"d", "f">>, DST \o <<"d", "f">>)

C3_AsClaimed ==
    (cfg.move /\ ~cfg.ignoreErrorOnCopy) =>
        /\ \A j \in 1..Len(jobs) :
              (jobs[j].kind = "copy" /\ jobs[j].st = "failed") => IsFile(fs, jobs[j].src)
        /\ (pc = "raised" /\ DirectoryMode) => IsDir(fs, cfg.source)

\* C4 as claimed, the half that is the purge's work: when execute() returns
\* normally with purge enabled, in directory mode a destination directory that
\* corresponds to a source directory holds no file or subdirectory name that
\* the source directory did not hold, and in single-file mode the target's
\* parent directory holds nothing but the target file.
C4_AsClaimed ==
    (pc = "returned" /\ cfg.purgeDestination) =>
        /\ DirectoryMode =>
              \A p \in SourceDirsBefore : ListDir(fs, destDir(p)) \subseteq ListDir(before, p)
        /\ SingleFileMode =>
              ListDir(fs, Parent(TargetOf(cfg.source))) \subseteq {BaseName(TargetOf(cfg.source))}

\* The paths copy jobs have been submitted for, and the destination paths that
\* correspond to the directories of the source.
CopyTargets == {jobs[j].dst : j \in {k \in 1..Len(jobs) : jobs[k].kind = "copy"}}
DirectoryTargets == {destDir(p) : p \in SourceDirsBefore}
DestinationBefore == {p \in DOMAIN before : IsPrefix(cfg.destination, p)}
SameMetadata(a, b) == a.mode = b.mode /\ a.mtime = b.mtime /\ a.atime = b.atime

RECURSIVE SumAdded(_)
SumAdded(n) == IF n = 0 THEN 0 ELSE jobs[n].added + SumAdded(n - 1)
RECURSIVE SumCopiedSizes(_)
SumCopiedSizes(n) ==
    IF n = 0 THEN 0
    ELSE SumCopiedSizes(n - 1)
         + (IF jobs[n].how = "copied" /\ ~cfg.zeroLengthFiles
            THEN Len(before[jobs[n].src].data) ELSE 0)

\* C6 as claimed: when execute() returns normally the copied-bytes counter
\* equals the sum of the sizes of the files actually copied in that run.
C6_AsClaimed ==
    pc = "returned" => copiedDataBytes = SumCopiedSizes(Len(jobs))

\* C6, amended: no add is lost, the counter being at every moment the sum of
\* what the jobs have added; and when execute() returns normally a copied file
\* has added its size (0 in zero-length mode), a skipped file 0, and a file
\* whose failure was ignored the bytes read from it before the failure.
C6_CounterIsBytesRead ==
    /\ copiedDataBytes = SumAdded(Len(jobs))
    /\ pc = "returned" =>
          \A j \in 1..Len(jobs) :
             /\ jobs[j].how = "copied" =>
                   jobs[j].added = IF cfg.zeroLengthFiles THEN 0
                                   ELSE Len(before[jobs[j].src].data)
             /\ jobs[j].how = "skipped" => jobs[j].added = 0
             /\ jobs[j].how = "ignored" =>
                   jobs[j].added = jobs[j].pos /\ jobs[j].pos <= Len(before[jobs[j].src].data)
             /\ jobs[j].kind = "purge" => jobs[j].added = 0

\* C6's case: two workers, a run that returned with one file copied and one
\* file whose write failed and was ignored, both counted.
C6_Witness ==
    /\ pc = "returned"
    /\ cfg.numWorkers = 2
    /\ \E j, k \in 1..Len(jobs) :
          /\ jobs[j].how = "copied" /\ jobs[j].added > 0
          /\ jobs[k].how = "ignored" /\ jobs[k].added > 0
    /\ copiedDataBytes = 2

\* C7: with ignore-error-on-copy unset, execute() has not returned normally
\* when a submitted job has failed: the handles drained so far all succeeded,
\* and a raise leaves the handle of a failed job at idx. No job is cancelled:
\* every submitted job is waiting in the queue, running, or resolved, in the
\* raised state as in any other.
C7_FailureIsRaised ==
    ~cfg.ignoreErrorOnCopy =>
        /\ pc = "returned" => \A j \in 1..Len(jobs) : jobs[j].st = "ok"
        /\ \A i \in 1..Len(results) : i < idx => jobs[results[i]].st = "ok"
        /\ (pc = "raised" /\ \E j \in 1..Len(jobs) : jobs[j].st = "failed") =>
              \/ idx <= Len(results) /\ jobs[results[idx]].st = "failed"
              \/ idx = 1 /\ cur.root # <<>> /\ cfg.copyPermissions
        /\ \A j \in 1..Len(jobs) :
              /\ jobs[j].st \in {"queued", "running", "ok", "failed"}
              /\ jobs[j].st = "queued" <=> \E i \in 1..Len(queue) : queue[i] = j
        /\ \A i \in 1..Len(queue) : queue[i] \in 1..Len(jobs)

\* C7's case: one worker, execute() has raised for a failed job, and a job
\* submitted after it has since run to its completion.
C7_Witness ==
    /\ ~cfg.ignoreErrorOnCopy
    /\ cfg.numWorkers = 1
    /\ pc = "raised"
    /\ idx <= Len(results)
    /\ jobs[results[idx]].st = "failed"
    /\ \E i \in 1..Len(results) : i > idx /\ jobs[results[i]].st = "ok"

\* C8 as claimed: with ignore-error-on-copy set, a copy job whose open, read or
\* write failed has returned without raising and has added nothing to the
\* copied-bytes counter.
C8_AsClaimed ==
    cfg.ignoreErrorOnCopy =>
        \A j \in 1..Len(jobs) :
           jobs[j].how = "ignored" => (jobs[j].st = "ok" /\ jobs[j].added = 0)

\* C8, amended: with ignore-error-on-copy set no copy job fails at its opens or
\* in its transfer loop; the step in which a job passes over such a failure
\* makes it return, performs no permission copy and no source deletion (the
\* file system is left as it is), leaves the skipped counter unchanged, and
\* adds to the copied-bytes counter what the job had not reported yet, so
\* that the job has added exactly the bytes it read before the failure.
C8_IgnoredFailure ==
    [][cfg.ignoreErrorOnCopy =>
         \A j \in 1..Len(jobs) :
            /\ jobs'[j].st = "failed" => jobs'[j].pc \notin {"open", "loop"}
            /\ (jobs[j].how # "ignored" /\ jobs'[j].how = "ignored") =>
                  /\ jobs'[j].st = "ok"
                  /\ fs' = fs
                  /\ numberOfSkippedCopies' = numberOfSkippedCopies
                  /\ jobs'[j].added = jobs'[j].pos
                  /\ copiedDataBytes' = copiedDataBytes + (jobs'[j].added - jobs[j].added)]_vars

\* C8's case: a job's failure in the middle of the transfer has been ignored,
\* after it had read bytes, and the run has returned.
C8_Witness ==
    /\ cfg.ignoreErrorOnCopy
    /\ pc = "returned"
    /\ \E j \in 1..Len(jobs) :
          /\ jobs[j].how = "ignored"
          /\ jobs[j].pos > 0
          /\ Len(jobs[j].handle) > jobs[j].pos

\* C9 as claimed: with ignore-error-on-copy set, a copy job whose metadata
\* copy fails after a successful transfer returns without raising.
C9_AsClaimed ==
    cfg.ignoreErrorOnCopy =>
        \A j \in 1..Len(jobs) : ~(jobs[j].st = "failed" /\ jobs[j].pc = "copystat")

\* The second of two calls has returned normally on a directory source, the
\* first having returned normally too.
SecondRunReturned ==
    /\ calls = 2
    /\ pc = "returned"
    /\ history.outcomes = <<"idle", "returned">>
    /\ DirectoryMode
\* The copy jobs of the second call, and the source files whose size or times
\* the caller changed between the calls.
SecondRunJobs == {j \in 1..Len(jobs) : jobs[j].call = 2 /\ jobs[j].kind = "copy"}
Restamped == {t.path : t \in {u \in history.touched : u.kind # "content"}}
RECURSIVE SumSizes(_)
SumSizes(S) ==
    IF S = {} THEN 0
    ELSE LET p == CHOOSE q \in S : TRUE IN Len(before[p].data) + SumSizes(S \ {p})

\* C10 as claimed, its first half where zero-length mode and
\* ignore-error-on-copy are off: with skip-same-looking enabled, a second
\* execute() on the same directory source and destination, the source not
\* changed in between, transfers zero bytes and leaves the skipped counter
\* equal to the number of source files.
C10_AsClaimed ==
    (/\ cfg.skipSameLookingFiles
     /\ ~cfg.zeroLengthFiles /\ ~cfg.ignoreErrorOnCopy
     /\ SecondRunReturned /\ history.touched = {}) =>
        /\ copiedDataBytes = 0
        /\ numberOfSkippedCopies = Cardinality(SourceFilesBefore)

\* C10, amended: with skip-same-looking and copy-permissions set and
\* zero-length mode and ignore-error-on-copy off, when both calls return
\* normally the second call has one copy job per source file; the job of a
\* file whose modification time the caller changed in between (with or
\* without its content) copies it again, every other job skips its file, a
\* file whose content alone was changed included; the counters say the same.
C10_SecondRunSkips ==
    (/\ cfg.skipSameLookingFiles /\ cfg.copyPermissions
     /\ ~cfg.zeroLengthFiles /\ ~cfg.ignoreErrorOnCopy
     /\ SecondRunReturned) =>
        /\ {jobs[j].src : j \in SecondRunJobs} = SourceFilesBefore
        /\ \A j \in SecondRunJobs :
              jobs[j].how = IF jobs[j].src \in Restamped THEN "copied" ELSE "skipped"
        /\ \A p \in Restamped : CopiedTo(p, destDir(p))
        /\ numberOfSkippedCopies = Cardinality(SourceFilesBefore \ Restamped)
        /\ copiedDataBytes = SumSizes(Restamped)

\* C10's case: of the two files of the source one was rewritten between the
\* calls; the second call has copied it and skipped the other.
C10_Witness ==
    /\ cfg.skipSameLookingFiles /\ cfg.copyPermissions
    /\ ~cfg.zeroLengthFiles /\ ~cfg.ignoreErrorOnCopy
    /\ SecondRunReturned
    /\ history.touched = {[path |-> SRC \o <<"f">>, kind |-> "rewrite"]}
    /\ Cardinality(SourceFilesBefore) = 2
    /\ numberOfSkippedCopies = 1
    /\ copiedDataBytes = 1

\* Size, modification time and access time of two nodes are equal.
LooksTheSame(a, b) == Len(a.data) = Len(b.data) /\ a.mtime = b.mtime /\ a.atime = b.atime
\* The copy jobs of the current call that have returned.
ReturnedCopyJobs ==
    {j \in 1..Len(jobs) : jobs[j].kind = "copy" /\ jobs[j].call = calls /\ jobs[j].st = "ok"}

\* C11 as claimed, where ignore-error-on-copy is off: with skip-same-looking
\* enabled a copy job that has returned has either skipped its file and added
\* nothing, or copied it and added the file's size to the copied-bytes counter.
C11_AsClaimed ==
    (cfg.skipSameLookingFiles /\ ~cfg.ignoreErrorOnCopy) =>
        \A j \in ReturnedCopyJobs :
           \/ jobs[j].how = "skipped" /\ jobs[j].added = 0
           \/ jobs[j].how = "copied" /\ jobs[j].added = Len(before[jobs[j].src].data)

\* C11, amended: with skip-same-looking enabled, the check of a copy job whose
\* source exists does exactly one of two things. If the destination exists and
\* its size, modification time and access time equal the source's, the job
\* returns, the skipped counter rises by 1, the copied-bytes counter and the
\* file system are unchanged. Otherwise the skipped counter is unchanged and
\* the job goes on to its opens. A job that has returned and did not skip has
\* added the file's size to the copied-bytes counter, 0 in zero-length mode,
\* unless its failure was ignored.
C11_SkipOrCopy ==
    [][cfg.skipSameLookingFiles =>
         \A j \in 1..Len(jobs) :
            /\ (jobs[j].st = "running" /\ jobs[j].pc = "stat" /\ jobs'[j] # jobs[j]
                /\ Exists(fs, jobs[j].src)) =>
                  IF Exists(fs, jobs[j].dst) /\ LooksTheSame(fs[jobs[j].src], fs[jobs[j].dst])
                  THEN /\ jobs'[j].st = "ok" /\ jobs'[j].how = "skipped"
                       /\ numberOfSkippedCopies' = numberOfSkippedCopies + 1
                       /\ copiedDataBytes' = copiedDataBytes
                       /\ fs' = fs
                  ELSE /\ numberOfSkippedCopies' = numberOfSkippedCopies
                       /\ copiedDataBytes' = copiedDataBytes
                       /\ fs' = fs
                       /\ \/ jobs'[j].st = "running" /\ jobs'[j].pc = "open"
                          \/ jobs'[j].st = "failed" /\ StatNotADirectory(fs, jobs[j].dst)
            /\ (jobs'[j].kind = "copy" /\ jobs'[j].st = "ok" /\ jobs'[j].call = calls') =>
                  \/ jobs'[j].how = "skipped" /\ jobs'[j].added = 0
                  \/ /\ jobs'[j].how = "copied"
                     /\ jobs'[j].added = IF cfg.zeroLengthFiles THEN 0
                                         ELSE Len(before'[jobs'[j].src].data)
                  \/ jobs'[j].how = "ignored" /\ cfg.ignoreErrorOnCopy]_vars

\* C11's case: in the second of two calls one job found its destination with
\* another modification time and copied the file again, the other job found
\* it same-looking and skipped.
C11_Witness ==
    /\ cfg.skipSameLookingFiles
    /\ ~cfg.zeroLengthFiles
    /\ calls = 2
    /\ history.touched = {[path |-> SRC \o <<"f">>, kind |-> "mtime"]}
    /\ \E j, k \in ReturnedCopyJobs :
          /\ jobs[j].src = SRC \o <<"f">> /\ jobs[j].how = "copied" /\ jobs[j].added = 1
          /\ jobs[k].src = SRC \o <<"d", "f">> /\ jobs[k].how = "skipped"
    /\ numberOfSkippedCopies = 1
    /\ copiedDataBytes = 1

\* C12 as claimed, where ignore-error-on-copy is off: when execute() returns
\* normally in zero-length mode every destination file that corresponds to a
\* source file has size 0 and the copied-bytes counter is 0.
C12_AsClaimed ==
    (pc = "returned" /\ cfg.zeroLengthFiles /\ ~cfg.ignoreErrorOnCopy) =>
        /\ \A p \in SourceFilesBefore :
              IsFile(fs, TargetOf(p)) /\ Len(fs[TargetOf(p)].data) = 0
        /\ copiedDataBytes = 0

\* C12, amended: when execute() returns normally in zero-length mode with
\* ignore-error-on-copy off, the copied-bytes counter is 0 and every source
\* file has a destination file, of size 0 unless skip-same-looking is set and
\* the destination file looked the same before the run, in which case it is as
\* it was. In directory mode every source directory exists in the destination,
\* with the exceptions of C1: an empty one under ignore-empty-directories, and
\* a file-less one whose path was taken by a regular file or has no parent.
C12_ZeroLength ==
    (pc = "returned" /\ cfg.zeroLengthFiles /\ ~cfg.ignoreErrorOnCopy) =>
        /\ copiedDataBytes = 0
        /\ \A p \in SourceFilesBefore :
              /\ IsFile(fs, TargetOf(p))
              /\ \/ Len(fs[TargetOf(p)].data) = 0
                 \/ /\ cfg.skipSameLookingFiles
                    /\ IsFile(before, TargetOf(p))
                    /\ LooksTheSame(before[p], before[TargetOf(p)])
                    /\ fs[TargetOf(p)] = before[TargetOf(p)]
        /\ DirectoryMode =>
              \A p \in SourceDirsBefore :
                 IF ListDir(before, p) = {} /\ cfg.ignoreEmptyDirectories
                 THEN Exists(fs, destDir(p)) <=> Exists(before, destDir(p))
                 ELSE \/ IsDir(fs, destDir(p))
                      \/ /\ Files(before, p) = {}
                         /\ IsFile(before, destDir(p)) \/ ~IsDir(fs, Parent(destDir(p)))

\* C12's case: a zero-length run over a destination that held a non-empty file
\* for each of the two source files has returned, and both are empty now.
C12_Witness ==
    /\ pc = "returned"
    /\ cfg.zeroLengthFiles /\ ~cfg.ignoreErrorOnCopy /\ ~cfg.skipSameLookingFiles
    /\ DirectoryMode
    /\ Cardinality(SourceFilesBefore) = 2
    /\ \A p \in SourceFilesBefore :
          /\ IsFile(before, destDir(p)) /\ Len(before[destDir(p)].data) > 0
          /\ IsFile(fs, destDir(p)) /\ Len(fs[destDir(p)].data) = 0

\* The copy jobs of the current call.
CopyJobsOfCall == {j \in 1..Len(jobs) : jobs[j].kind = "copy" /\ jobs[j].call = calls}

\* C13 as claimed, where ignore-error-on-copy is off: for a single-file source,
\* when execute() returns normally the source's content is at the target and
\* the copied-bytes counter equals the source file's size.
C13_AsClaimed ==
    (pc = "returned" /\ SingleFileMode /\ ~cfg.ignoreErrorOnCopy) =>
        /\ CopiedTo(cfg.source, TargetOf(cfg.source))
        /\ copiedDataBytes = Len(before[cfg.source].data)

\* C13, amended: for a single-file source there is one copy job once the jobs
\* are submitted, and its target is <destination>/<basename(source)> when the
\* destination was an existing directory and the destination path otherwise.
\* When execute() returns normally with zero-length mode and
\* ignore-error-on-copy off, either the source's content is at that target and
\* the copied-bytes counter is the file's size, or skip-same-looking is set,
\* the job skipped, the counter is 0 and the target is as it was.
C13_SingleFile ==
    SingleFileMode =>
        /\ \A j \in CopyJobsOfCall :
              /\ jobs[j].src = cfg.source
              /\ jobs[j].dst = IF IsDir(before, cfg.destination)
                               THEN cfg.destination \o <<BaseName(cfg.source)>>
                               ELSE cfg.destination
        /\ pc \in {"drain", "returned"} => Cardinality(CopyJobsOfCall) = 1
        /\ (pc = "returned" /\ ~cfg.zeroLengthFiles /\ ~cfg.ignoreErrorOnCopy) =>
              \/ /\ CopiedTo(cfg.source, TargetOf(cfg.source))
                 /\ copiedDataBytes = Len(before[cfg.source].data)
              \/ /\ cfg.skipSameLookingFiles
                 /\ \A j \in CopyJobsOfCall : jobs[j].how = "skipped"
                 /\ copiedDataBytes = 0
                 /\ fs[TargetOf(cfg.source)] = before[TargetOf(cfg.source)]

\* C13's case: a single file has been copied into a destination that was an
\* existing directory, under its own name.
C13_Witness ==
    /\ pc = "returned"
    /\ SingleFileMode
    /\ IsDir(before, cfg.destination)
    /\ ~cfg.zeroLengthFiles /\ ~cfg.ignoreErrorOnCopy
    /\ CopiedTo(cfg.source, cfg.destination \o <<BaseName(cfg.source)>>)
    /\ copiedDataBytes = MaxFileLen

\* C14 as claimed: a purge job whose destination directory does not exist when
\* a worker runs it does not fail.
C14_AsClaimed ==
    \A j \in 1..Len(jobs) :
       (jobs[j].kind = "purge" /\ jobs[j].st = "failed" /\ jobs[j].pc = "list"
        /\ Len(jobs[j].stack) = 1) => Exists(fs, jobs[j].dst)

\* The regular files at every depth under the directory d, in the file system f.
FilesUnder(f, d) == {p \in DOMAIN f : IsPrefix(d, p) /\ p # d /\ f[p].kind = "file"}
\* The regular files that were there when execute() was called and are gone.
FilesGone == {p \in DOMAIN before : before[p].kind = "file" /\ ~Exists(fs, p)}

\* C15: a purge job with an empty retained-name set that has returned has left
\* no regular file at any depth under its directory; and when a run without
\* move returns, the purged counter is exactly the number of regular files
\* that are gone, which for a single such job is the number of regular files
\* that were in its tree.
C15_PurgeAll ==
    /\ \A j \in 1..Len(jobs) :
          (jobs[j].kind = "purge" /\ jobs[j].keep = {} /\ jobs[j].st = "ok") =>
             FilesUnder(fs, jobs[j].dst) = {}
    /\ (pc = "returned" /\ ~cfg.move) => numberOfPurgedFiles = Cardinality(FilesGone)
    /\ (pc = "returned" /\ ~cfg.move /\ Len(jobs) = 1 /\ DirectoryMode) =>
          \A j \in 1..Len(jobs) :
             (jobs[j].kind = "purge" /\ jobs[j].keep = {}) =>
                numberOfPurgedFiles = Cardinality(FilesUnder(before, jobs[j].dst))

\* C15's case: the one job of a run purged, with nothing to retain, a
\* destination that held a file and a directory with a file in it.
C15_Witness ==
    /\ pc = "returned"
    /\ Len(jobs) = 1
    /\ jobs[1].kind = "purge" /\ jobs[1].keep = {} /\ jobs[1].st = "ok"
    /\ FilesUnder(before, jobs[1].dst) = {DST \o <<"y">>, DST \o <<"x", "f">>}
    /\ FilesUnder(fs, jobs[1].dst) = {}
    /\ numberOfPurgedFiles = 2

\* C16 as claimed, its removal of entries: once a purge job has returned, its
\* directory holds no immediate entry, file or directory, whose name is not in
\* the retained names.
C16_AsClaimed ==
    \A j \in 1..Len(jobs) :
       (jobs[j].kind = "purge" /\ jobs[j].st = "ok") =>
          ListDir(fs, jobs[j].dst) \subseteq jobs[j].keep

\* C17: with copy-permissions set, the metadata copy of a job comes after its
\* last write (the job reaches it with the whole source read), and from then
\* on, through the removal of a moved source and up to the return of
\* execute() and after, the destination file of a job that copied has the
\* mode, modification time and access time its source file had.
C17_MetadataCopied ==
    cfg.copyPermissions =>
        \A j \in 1..Len(jobs) :
           /\ (jobs[j].st = "running" /\ jobs[j].pc = "copystat") =>
                 (cfg.zeroLengthFiles \/ jobs[j].pos = Len(jobs[j].handle))
           /\ (jobs[j].kind = "copy" /\
               (jobs[j].how = "copied" \/ (jobs[j].st = "running" /\ jobs[j].pc = "remove"))) =>
                 /\ IsFile(fs, jobs[j].dst)
                 /\ SameMetadata(fs[jobs[j].dst], before[jobs[j].src])

\* C17's case: a run with copy-permissions has returned, and a destination
\* file that carried other metadata before the run was copied over.
C17_Witness ==
    /\ pc = "returned"
    /\ cfg.copyPermissions
    /\ ~cfg.zeroLengthFiles
    /\ \E j \in 1..Len(jobs) :
          /\ jobs[j].how = "copied"
          /\ IsFile(before, jobs[j].dst)
          /\ ~SameMetadata(before[jobs[j].dst], before[jobs[j].src])
          /\ fs[jobs[j].dst].data = before[jobs[j].src].data

\* C18: when the source path was neither a file nor a directory as execute()
\* was called, execute() has raised, this call has submitted no job, nothing
\* waits in the queue for it and the file system is as it was.
C18_InvalidSource ==
    (calls >= 1 /\ ~Exists(before, cfg.source)) =>
        /\ pc = "raised"
        /\ {j \in 1..Len(jobs) : jobs[j].call = calls} = {}
        /\ results = <<>>
        /\ fs = before

\* C18's case: execute() was called on a missing source with a destination
\* that exists, and has raised.
C18_Witness ==
    /\ calls = 1
    /\ pc = "raised"
    /\ ~Exists(before, cfg.source)
    /\ IsDir(fs, cfg.destination)
    /\ jobs = <<>>

\* C19: with quiet set nothing has been written to standard output at any
\* point of execute() (banner, configuration, submission messages, speed
\* reports, summary), and a failed job still ends the call by raising: the
\* drain loop never passes a handle whose job failed.
C19_QuietIsSilent ==
    cfg.quiet =>
        /\ stdout = {}
        /\ pc \in {"drain", "returned"} =>
              \A i \in 1..Min(idx - 1, Len(results)) : jobs[results[i]].st = "ok"

\* C19's case: a quiet run whose drain loop re-raised the failure of a copy
\* job, after a walk and a drain that would each have reported the speed.
C19_Witness ==
    /\ cfg.quiet
    /\ pc = "raised"
    /\ IsDir(before, cfg.source)
    /\ idx > 1
    /\ idx <= Len(results)
    /\ jobs[results[idx]].st = "failed"
    /\ stdout = {}

\* C20: in directory mode, whenever a copy job of the call is queued or
\* running, the parent of its target is an existing directory of the
\* destination.
C20_AsClaimed ==
    DirectoryMode =>
        \A j \in 1..Len(jobs) :
            (jobs[j].kind = "copy" /\ jobs[j].call = calls /\ jobs[j].st \in {"queued", "running"})
                => IsDir(fs, Parent(jobs[j].dst))

\* os.mkdir(d) fails although nothing exists at d: the parent of d is missing
\* or is not a directory.
MkdirFailsOtherwise(f, d) == ~Exists(f, d) /\ ~IsDir(f, Parent(d))

\* C21: with ignore-error-on-copy unset, the coordinator's step that calls
\* os.mkdir on a path whose creation fails for another reason than "already
\* exists" ends the call by raising.
C21_AsClaimed ==
    [][(/\ ~cfg.ignoreErrorOnCopy
        /\ pc' # pc
        /\ \/ pc = "mkdir" /\ MkdirFailsOtherwise(fs, destDir(cur.root))
           \/ /\ pc = "single"
              /\ ~IsDir(fs, cfg.destination)
              /\ MkdirFailsOtherwise(fs, Parent(cfg.destination)))
       => pc' = "raised"]_vars

\* C22: once execute() has been called, no step of the run (a purge job's
\* os.remove in particular, at whatever depth of its recursion) removes the
\* path that is the copy target of a source file, whether the copy job for it
\* has not been submitted yet, is queued, is running or has resolved.
C22_PurgeSparesTargets ==
    [][calls >= 1 =>
          \A p \in SourceFilesBefore :
              Exists(fs, TargetOf(p)) => Exists(fs', TargetOf(p))]_vars

\* C22's case: a purge job that has removed a file of its directory and is
\* still running, next to a copy job of the same directory that has written
\* its target.
C22_Witness ==
    \E j, k \in 1..Len(jobs) :
        /\ jobs[j].kind = "purge"
        /\ jobs[j].st = "running"
        /\ jobs[j].stack # <<>>
        /\ jobs[j].stack[1].count >= 1
        /\ jobs[k].kind = "copy"
        /\ jobs[k].st = "ok"
        /\ Parent(jobs[k].dst) = jobs[j].dst
        /\ IsFile(fs, jobs[k].dst)

\* C23: whenever a call has ended, by returning or by raising, the run is
\* marked done and the pool has been closed and joined: no task is queued and
\* no worker is running one.
C23_AsClaimed ==
    pc \in {"returned", "raised"} =>
        /\ done
        /\ queue = <<>>
        /\ Running = {}

\* What the jobs of call c among the first n jobs have added to the
\* copied-bytes counter.
RECURSIVE SumAddedOfCall(_, _)
SumAddedOfCall(n, c) ==
    IF n = 0 THEN 0
    ELSE SumAddedOfCall(n - 1, c) + (IF jobs[n].call = c THEN jobs[n].added ELSE 0)

\* C24: when a call returns normally, however the earlier calls ended, the
\* copied-bytes counter is what the jobs submitted by this call have added and
\* the skipped counter is the number of its jobs that skipped.
C24_AsClaimed ==
    pc = "returned" =>
        /\ copiedDataBytes = SumAddedOfCall(Len(jobs), calls)
        /\ numberOfSkippedCopies =
              Cardinality({j \in 1..Len(jobs) : jobs[j].call = calls /\ jobs[j].how = "skipped"})

\* C25: once the drain loop has left the last handle, and so when the pool
\* is released, a moved source tree removed and the summary written, every job
\* the call submitted has returned: none is queued or running, none has failed.
C25_AllResolved ==
    (pc \in {"drain", "returned"} /\ idx > Len(results)) =>
        /\ \A j \in 1..Len(jobs) : jobs[j].call = calls => jobs[j].st = "ok"
        /\ {results[i] : i \in 1..Len(results)} = {j \in 1..Len(jobs) : jobs[j].call = calls}

\* C25's case: the drain loop has left the last of several handles, of purge
\* and of copy jobs, and the pool has not been released yet.
C25_Witness ==
    /\ pc = "drain"
    /\ idx > Len(results)
    /\ Len(results) >= 3
    /\ \E i, k \in 1..Len(results) :
          jobs[results[i]].kind = "purge" /\ jobs[results[k]].how = "copied"
    /\ \A i \in 1..Len(results) : jobs[results[i]].st = "ok"

\* C26: under fair scheduling of the calling thread and of the workers, a call
\* that is submitting or draining eventually ends, by returning or by raising;
\* and while it is submitting, its next step is never held up by the jobs.
C26_CallEnds ==
    /\ (pc \in {"walk", "mkdir", "single", "drain"}) ~> (pc \in {"returned", "raised"})
    /\ [](pc \in {"walk", "mkdir", "single"} =>
             ENABLED (walkDirectory \/ makeDirectory \/ submitSingleFile))

\* C26's case: a call with a single worker has ended after its drain loop left
\* each of several handles.
C26_Witness ==
    /\ pc = "returned"
    /\ cfg.numWorkers = 1
    /\ Len(results) >= 3
    /\ idx = Len(results) + 1
    /\ copiedDataBytes > 0

====
